---- MODULE Spec2Model ----
(***************************************************************************)
(* A model of src/src/models/SVAE.py: the StandardVAE training call (fit), *)
(* its mini-batch generator (nn_batch_generator), the per-epoch callbacks  *)
(* (Metrics, LossHistory), the top-k selection (recommend_k_items) and the *)
(* ranking metric (ndcg_at_k, merge_ranking_true_pred, get_top_k_items).   *)
(*                                                                         *)
(* Conventions.                                                            *)
(*  - Rows, users and items are numbered from 1 (Python numbers from 0).   *)
(*  - A row of the training matrix is identified by its row number, so a   *)
(*    batch is the sequence of the row numbers of x_train it holds.        *)
(*  - Floating-point scores, losses and NDCG values are integers on a      *)
(*    fixed scale; an NDCG value is an exact fraction <<num, den>>.        *)
(*  - The Keras training loop (fit_generator) is modelled by its contract: *)
(*    on_train_begin, then per epoch steps_per_epoch batches drawn from    *)
(*    the generator, one optimizer step each, then on_epoch_end of the     *)
(*    callbacks in list order.                                             *)
(***************************************************************************)
EXTENDS Integers, Sequences, FiniteSets, TLC

\* ------------------------------------------------------------------ bounds
MaxUsers == 3
MaxBatchSize == 3
MaxEpochs == 2
MaxPasses == 3
MaxCells == 3
MaxTableRows == 2
MaxK == 2

\* NDCG values a validation epoch may report, on a scale where 2 is 1.0.
NdcgLevels == {0, 1, 2}
\* The (loss, val_loss) pairs Keras may put in an epoch's logs.
LogValues == {<<1, 2>>, <<2, 1>>}
\* The entries of a click matrix, and the scores model.predict may return.
ClickValues == {0, 1}
ScoreValues == {0, 1, 2}
\* The user and item ids of the rating tables, the ratings of the true table
\* and the prediction scores of the predicted table.
UserIds == {1, 2}
ItemIds == {1, 2}
RatingValues == {1}
PredictionValues == {1, 2}

VARIABLES
  \* StandardVAE.__init__
  annealing, save_path, n_users, batch_size, n_epochs, number_of_batches,
  \* the running generator object of nn_batch_generator
  gen_state, shuffle_index, counter, batch, pass_batches, passes, rng_draws,
  \* StandardVAE.fit and the Keras loop it drives
  pc, epoch, step, params, stdout,
  \* Metrics and LossHistory
  best_ndcg, _data, losses, val_losses, save_calls,
  \* the lists fit stores on the object (a set: empty while unassigned)
  train_loss, val_loss, val_ndcg,
  \* one call of recommend_k_items(x, k, remove_seen): its arguments, what
  \* model.predict(x) returns, the local score matrix once masked, the result
  call, x, k, remove_seen, predicted, score, top_scores,
  \* one call of ndcg_at_k(rating_true, rating_pred, k=k): the two tables (rows
  \* <<user, item, rating or prediction>> in table order), where the call ended
  \* and the value it returned
  rating_true, rating_pred, ndcg_call, ndcg_value

genVars == <<gen_state, shuffle_index, counter, batch, pass_batches, passes, rng_draws>>
cfgVars == <<annealing, save_path, n_users, batch_size, n_epochs, number_of_batches>>
fitVars == <<pc, epoch, step, params, stdout>>
cbVars == <<best_ndcg, _data, losses, val_losses, save_calls>>
outVars == <<train_loss, val_loss, val_ndcg>>
recVars == <<call, x, k, remove_seen, predicted, score, top_scores>>
ndcgVars == <<rating_true, rating_pred, ndcg_call, ndcg_value>>
vars == <<cfgVars, genVars, fitVars, cbVars, outVars, recVars, ndcgVars>>

\* ----------------------------------------------------------------- helpers
Min(a, b) == IF a <= b THEN a ELSE b

Max(a, b) == IF a >= b THEN a ELSE b

Range(s) == {s[i] : i \in DOMAIN s}

\* All orders np.random.shuffle may leave in np.arange(n).
Perms(n) == {p \in [1..n -> 1..n] : \A i, j \in 1..n : p[i] = p[j] => i = j}

\* Python's s[lo:hi] on a sequence, lo and hi counted from 0, clipped to the length.
PySlice(s, lo, hi) ==
  LET a == Min(lo, Len(s))
      b == Min(hi, Len(s))
  IN IF b <= a THEN <<>> ELSE SubSeq(s, a + 1, b)

\* numpy's m[idx, :] for an index array idx: the rows of m at the places idx names.
TakeRows(m, idx) == [j \in 1..Len(idx) |-> m[idx[j]]]

\* ------------------------------------------------- StandardVAE.__init__
NumberOfBatches(n, b) == n \div b

\* ---------------------------------------------------- nn_batch_generator
\* x = x_train[shuffle_index, :], as the row numbers of x_train it holds.
ShuffledX(si) == TakeRows([i \in 1..Len(si) |-> i], si)

\* index_batch = shuffle_index[batch_size * counter : batch_size * (counter + 1)]
IndexBatch(si, c) == PySlice(si, batch_size * c, batch_size * (c + 1))

\* x_batch = x[index_batch, :]
XBatch(si, c) == TakeRows(ShuffledX(si), IndexBatch(si, c))

\* The stopping rule the generator runs when it is resumed after a yield.
StoppingRule(c) == IF c >= number_of_batches THEN 0 ELSE c

\* One pass of the loop body from its top to the yield, at counter value c.
YieldBatch(si, c) ==
  /\ batch' = XBatch(si, c)
  /\ counter' = c + 1
  /\ gen_state' = "suspended"
  /\ IF c = 0
       THEN /\ pass_batches' = <<XBatch(si, c)>>
            /\ passes' = Min(passes + 1, MaxPasses)
       ELSE /\ pass_batches' = Append(pass_batches, XBatch(si, c))
            /\ passes' = passes

\* next(generator): the first call runs the shuffle and enters the loop; a later
\* call resumes after the yield, runs the stopping rule and loops.
GenNext ==
  IF gen_state = "unstarted"
    THEN \E p \in Perms(n_users) :
           /\ shuffle_index' = p
           /\ rng_draws' = rng_draws + 1
           /\ YieldBatch(p, 0)
    ELSE /\ shuffle_index' = shuffle_index
         /\ rng_draws' = rng_draws
         /\ YieldBatch(shuffle_index, StoppingRule(counter))

GenFresh ==
  /\ gen_state = "unstarted"
  /\ shuffle_index = <<>>
  /\ counter = 0
  /\ batch = <<>>
  /\ pass_batches = <<>>
  /\ passes = 0
  /\ rng_draws = 0

\* ---------------------------------------------------- recommend_k_items
\* Metrics.recommend_k_items (lines 66-95) and StandardVAE.recommend_k_items
\* (lines 382-406) are the same statements; one model serves both.
Matrices(n_rows, n_items, values) == [1..n_rows -> [1..n_items -> values]]

\* score[seen_mask] = 0 with seen_mask = np.not_equal(x, 0)
MaskWrongCells(xm, sc) ==
  [i \in DOMAIN sc |-> [j \in DOMAIN sc[i] |-> IF xm[i][j] = 0 THEN 0 ELSE sc[i][j]]]

MaskSeen(xm, sc) ==
  [i \in DOMAIN sc |-> [j \in DOMAIN sc[i] |-> IF xm[i][j] # 0 THEN 0 ELSE sc[i][j]]]

\* -score, for one row
NegateSkipped(row) == row

Negate(row) == [j \in DOMAIN row |-> 0 - row[j]]

\* np.argpartition(a, kth) on one row, kth a sequence of places counted from 1:
\* every index array that numpy's contract allows. The array is a permutation
\* of the columns; at each place of kth stands a column whose value is the one a
\* full sort would put there, no larger value before it and no smaller after it.
\* Which of the allowed arrays numpy returns on ties is left open.
ArgPartition(a, kth) ==
  {p \in Perms(Len(a)) :
     \A t \in kth :
       /\ \A i \in 1..(t - 1) : a[p[i]] <= a[p[t]]
       /\ \A i \in (t + 1)..Len(a) : a[p[i]] >= a[p[t]]}

\* range(k) as places counted from 1; numpy raises ValueError when a place is
\* beyond the last column.
KthOutOfBounds(kk, n_items) == kk > n_items

\* [:, :k] of the index array, for one row
FirstK(p, kk) == PySlice(p, 0, kk)

\* The values top_items may take for one row of the masked scores.
TopItems(row, kk) == {FirstK(p, kk) : p \in ArgPartition(Negate(row), 1..kk)}

\* score_c = score.copy(); score_c[rows, top_items] = 0
ZeroAt(sc, top_items) ==
  [i \in DOMAIN sc |->
     [j \in DOMAIN sc[i] |-> IF j \in Range(top_items[i]) THEN 0 ELSE sc[i][j]]]

\* score - score_c
Subtract(a, b) == [i \in DOMAIN a |-> [j \in DOMAIN a[i] |-> a[i][j] - b[i][j]]]

\* The whole call: score = model.predict(x) is masked in place, then either
\* argpartition raises (the call ends with no value) or the top-k scores are
\* returned.
RecommendKItems ==
  /\ call = "called"
  /\ LET masked == IF remove_seen THEN MaskSeen(x, predicted) ELSE predicted
         n_items == Len(predicted[1])
     IN /\ score' = masked
        /\ IF KthOutOfBounds(k, n_items)
             THEN /\ call' = "raised"
                  /\ top_scores' = top_scores
             ELSE /\ call' = "returned"
                  /\ \E top_items \in [DOMAIN masked -> UNION {TopItems(masked[i], k) : i \in DOMAIN masked}] :
                       /\ \A i \in DOMAIN masked : top_items[i] \in TopItems(masked[i], k)
                       /\ top_scores' = Subtract(masked, ZeroAt(masked, top_items))
  /\ UNCHANGED <<x, k, remove_seen, predicted>>

RecIdle ==
  /\ call = "none"
  /\ x = <<>>
  /\ k = 0
  /\ remove_seen = FALSE
  /\ predicted = <<>>
  /\ score = <<>>
  /\ top_scores = <<>>

\* ------------------------------------------------------------ ndcg_at_k
\* A table row is <<user, item, value>>; a ranked row is <<user, item, value, rank>>.
\* A value of the metric is an exact fraction <<numerator, denominator>> in
\* lowest terms on the integer discounts below.

\* 1 / np.log1p(rank), times 100 and rounded: positive and strictly decreasing,
\* as the real discounts are.
Discount(rank) ==
  CASE rank = 1 -> 144
    [] rank = 2 -> 91
    [] rank = 3 -> 72
    [] rank = 4 -> 62
    [] rank = 5 -> 56
    [] OTHER -> 51

RECURSIVE Gcd(_, _)
Gcd(a, b) == IF b = 0 THEN a ELSE Gcd(b, a % b)

Frac(num, den) == LET g == Gcd(num, den) IN <<num \div g, den \div g>>

FracAdd(a, b) == Frac(a[1] * b[2] + b[1] * a[2], a[2] * b[2])

\* The users of a table: set(df[col_user]).
UsersOf(df) == {df[i][1] : i \in DOMAIN df}

\* df[df[col_user].isin(users)]: the rows kept in table order.
RowsOfUsers(df, users) == SelectSeq(df, LAMBDA r : r[1] \in users)

RemoveAt(s, m) == SubSeq(s, 1, m - 1) \o SubSeq(s, m + 1, Len(s))

\* x.nlargest(k, col): the k rows of largest value, largest first; rows of equal
\* value stay in their table order (keep='first'); k <= 0 gives no row.
NHead(rows, kk) == PySlice(rows, 0, kk)

NLargest(rows, kk) ==
  IF kk <= 0 THEN <<>>
  ELSE LET RECURSIVE Pick(_, _)
           Pick(rest, n) ==
             IF n = 0 \/ rest = <<>> THEN <<>>
             ELSE LET m == CHOOSE i \in DOMAIN rest :
                             \A j \in DOMAIN rest :
                               \/ rest[j][3] < rest[i][3]
                               \/ (rest[j][3] = rest[i][3] /\ j >= i)
                  IN <<rest[m]>> \o Pick(RemoveAt(rest, m), n - 1)
       IN Pick(rows, kk)

\* The group keys of groupby(col_user), which sorts them.
RECURSIVE SortedUsers(_)
SortedUsers(users) ==
  IF users = {} THEN <<>>
  ELSE LET u == CHOOSE a \in users : \A b \in users : a <= b
       IN <<u>> \o SortedUsers(users \ {u})

\* cumcount() + 1 within one user's rows
WithRank(rows) == [i \in DOMAIN rows |-> <<rows[i][1], rows[i][2], rows[i][3], i>>]

\* get_top_k_items with k not None: per user (in key order) the k largest rows,
\* then the rank of each row within its user.
GetTopKItems(dataframe, kk) ==
  LET RECURSIVE Groups(_)
      Groups(us) ==
        IF us = <<>> THEN <<>>
        ELSE WithRank(NLargest(RowsOfUsers(dataframe, {Head(us)}), kk)) \o Groups(Tail(us))
  IN Groups(SortedUsers(UsersOf(dataframe)))

\* pd.merge(df_hit, rating_true_common, on=[col_user, col_item])[[user, item, rank]]:
\* one row <<user, item, rank>> per pair of a ranked row and a true row with the
\* same user and item, in the order of the ranked rows.
MergeHits(top, true_common) ==
  LET RECURSIVE Rows(_)
      Rows(i) ==
        IF i > Len(top) THEN <<>>
        ELSE [j \in 1..Len(SelectSeq(true_common,
                 LAMBDA r : r[1] = top[i][1] /\ r[2] = top[i][2])) |->
                <<top[i][1], top[i][2], top[i][4]>>] \o Rows(i + 1)
  IN Rows(1)

\* merge_ranking_true_pred counting, as n_users, only the users that have a hit.
MergeRankingTruePredHitUsers(rt, rp, kk) ==
  LET common_users == UsersOf(rt) \cap UsersOf(rp)
      rating_true_common == RowsOfUsers(rt, common_users)
      rating_pred_common == RowsOfUsers(rp, common_users)
      df_hit == MergeHits(GetTopKItems(rating_pred_common, kk), rating_true_common)
  IN [df_hit |-> df_hit,
      actual |-> [u \in UsersOf(df_hit) |-> Len(RowsOfUsers(rating_true_common, {u}))],
      n_users |-> Cardinality(UsersOf(df_hit))]

\* merge_ranking_true_pred with relevancy_method = "top_k": the hits, the number
\* of true rows of each user that has a hit ("actual"), the number of common users.
MergeRankingTruePred(rt, rp, kk) ==
  LET common_users == UsersOf(rt) \cap UsersOf(rp)
      rating_true_common == RowsOfUsers(rt, common_users)
      rating_pred_common == RowsOfUsers(rp, common_users)
      df_hit == MergeHits(GetTopKItems(rating_pred_common, kk), rating_true_common)
  IN [df_hit |-> df_hit,
      actual |-> [u \in UsersOf(df_hit) |-> Len(RowsOfUsers(rating_true_common, {u}))],
      n_users |-> Cardinality(common_users)]

\* The guard of line 462.
HitsEmptyIgnored(df_hit) == FALSE

HitsEmpty(df_hit) == Len(df_hit) = 0

RECURSIVE SumDiscounts(_)
SumDiscounts(ranks) ==
  IF ranks = <<>> THEN 0 ELSE Discount(Head(ranks)) + SumDiscounts(Tail(ranks))

\* A user's DCG: the discounts of the user's hits.
Dcg(df_hit, u) ==
  LET hits == RowsOfUsers(df_hit, {u})
  IN SumDiscounts([i \in DOMAIN hits |-> hits[i][3]])

\* A user's ideal DCG: sum(1 / np.log1p(range(1, min(actual, k) + 1)))
IdcgUncapped(actual, kk) == SumDiscounts([i \in 1..actual |-> i])

Idcg(actual, kk) == SumDiscounts([i \in 1..Min(actual, kk) |-> i])

\* ndcg_at_k: where the call ends and what it returns. "early" is the return of
\* line 463, "full" the return of line 478; "div_by_zero" stands for a division
\* by a zero IDCG or by a zero user count on line 478.
NdcgAtK(rt, rp, kk) ==
  LET m == MergeRankingTruePred(rt, rp, kk)
      users == SortedUsers(UsersOf(m.df_hit))
      RECURSIVE SumNdcg(_)
      SumNdcg(us) ==
        IF us = <<>> THEN <<0, 1>>
        ELSE FracAdd(Frac(Dcg(m.df_hit, Head(us)), Idcg(m.actual[Head(us)], kk)),
                     SumNdcg(Tail(us)))
  IN IF HitsEmpty(m.df_hit)
       THEN [ended |-> "early", value |-> <<0, 1>>]
       ELSE IF m.n_users = 0 \/ \E u \in UsersOf(m.df_hit) : Idcg(m.actual[u], kk) = 0
         THEN [ended |-> "div_by_zero", value |-> <<0, 0>>]
         ELSE LET total == SumNdcg(users)
              IN [ended |-> "full", value |-> Frac(total[1], total[2] * m.n_users)]

\* The whole call.
NdcgCall ==
  /\ ndcg_call = "called"
  /\ ndcg_call' = NdcgAtK(rating_true, rating_pred, k).ended
  /\ ndcg_value' = NdcgAtK(rating_true, rating_pred, k).value
  /\ UNCHANGED <<rating_true, rating_pred, k>>

NdcgIdle ==
  /\ rating_true = <<>>
  /\ rating_pred = <<>>
  /\ ndcg_call = "none"
  /\ ndcg_value = <<0, 1>>

\* ------------------------------------------------ Metrics, LossHistory
BestNdcgInitial == 0

ImprovedOrEqual(ndcg, best) == ndcg >= best

Improved(ndcg, best) == ndcg > best

\* The two callbacks keeping only the latest epoch's values instead of appending.
OnEpochEndOverwrites(ndcg, logs) ==
  /\ IF Improved(ndcg, best_ndcg)
       THEN /\ best_ndcg' = ndcg
            /\ save_calls' = IF save_path # "None"
                               THEN Append(save_calls, epoch + 1)
                               ELSE save_calls
       ELSE UNCHANGED <<best_ndcg, save_calls>>
  /\ _data' = <<ndcg>>
  /\ losses' = <<logs[1]>>
  /\ val_losses' = <<logs[2]>>

\* Metrics.on_epoch_end with the epoch's NDCG value, then LossHistory.on_epoch_end
\* with the epoch's logs (the callbacks list is [metrics, history, reduce_lr]).
OnEpochEnd(ndcg, logs) ==
  /\ IF Improved(ndcg, best_ndcg)
       THEN /\ best_ndcg' = ndcg
            /\ save_calls' = IF save_path # "None"
                               THEN Append(save_calls, epoch + 1)
                               ELSE save_calls
       ELSE UNCHANGED <<best_ndcg, save_calls>>
  /\ _data' = Append(_data, ndcg)
  /\ losses' = Append(losses, logs[1])
  /\ val_losses' = Append(val_losses, logs[2])

CallbacksIdle ==
  /\ best_ndcg = 0
  /\ _data = <<>>
  /\ losses = <<>>
  /\ val_losses = <<>>
  /\ save_calls = <<>>

\* ------------------------------------------------------- StandardVAE.fit
\* The branch fit takes on self.annealing (line 323).
AnnealingIgnored(a) == FALSE

AnnealingAborts(a) == a = TRUE

\* fit up to the hand-over to fit_generator: the callbacks are built, then either
\* the annealing message is printed and fit returns, or training begins
\* (on_train_begin of Metrics and LossHistory).
Fit ==
  /\ pc = "constructed"
  /\ best_ndcg' = BestNdcgInitial
  /\ IF AnnealingAborts(annealing)
       THEN /\ pc' = "aborted"
            /\ stdout' = Append(stdout, "annealing is not supported. Please set to False")
            /\ UNCHANGED <<_data, losses, val_losses>>
       ELSE /\ pc' = "training"
            /\ stdout' = stdout
            /\ _data' = <<>>
            /\ losses' = <<>>
            /\ val_losses' = <<>>
  /\ UNCHANGED <<cfgVars, genVars, epoch, step, params, save_calls, outVars, recVars, ndcgVars>>

\* One training step of fit_generator: a batch is drawn and the optimizer steps.
TrainBatch ==
  /\ pc = "training"
  /\ step < number_of_batches
  /\ GenNext
  /\ step' = step + 1
  /\ params' = params + 1
  /\ UNCHANGED <<cfgVars, pc, epoch, stdout, cbVars, outVars, recVars, ndcgVars>>

\* The end of an epoch: the callbacks run; after the last epoch fit_generator returns.
EpochEnd ==
  /\ pc = "training"
  /\ step = number_of_batches
  /\ \E ndcg \in NdcgLevels, logs \in LogValues : OnEpochEnd(ndcg, logs)
  /\ epoch' = epoch + 1
  /\ step' = 0
  /\ pc' = IF epoch + 1 = n_epochs THEN "fitted" ELSE "training"
  /\ UNCHANGED <<cfgVars, genVars, params, stdout, outVars, recVars, ndcgVars>>

\* fit after fit_generator returned: the lists are stored on the object.
FitReturn ==
  /\ pc = "fitted"
  /\ train_loss' = {losses}
  /\ val_loss' = {val_losses}
  /\ val_ndcg' = {_data}
  /\ pc' = "returned"
  /\ UNCHANGED <<cfgVars, genVars, epoch, step, params, stdout, cbVars, recVars, ndcgVars>>

FitIdle ==
  /\ pc = "constructed"
  /\ epoch = 0
  /\ step = 0
  /\ params = 0
  /\ stdout = <<>>
  /\ train_loss = {}
  /\ val_loss = {}
  /\ val_ndcg = {}

\* The object after StandardVAE(...): fit is modelled where Keras's contract is
\* defined, steps_per_epoch >= 1.
Init ==
  /\ annealing \in BOOLEAN
  /\ save_path \in {"None", "path"}
  /\ n_users \in 1..MaxUsers
  /\ batch_size \in 1..MaxBatchSize
  /\ n_epochs \in 1..MaxEpochs
  /\ number_of_batches = NumberOfBatches(n_users, batch_size)
  /\ number_of_batches >= 1
  /\ GenFresh
  /\ CallbacksIdle
  /\ FitIdle
  /\ RecIdle
  /\ NdcgIdle

Next == Fit \/ TrainBatch \/ EpochEnd \/ FitReturn

Spec == Init /\ [][Next]_vars

\* ------------------------------------------- the generator on its own
\* Any consumer calling next() on nn_batch_generator(x_train), for every
\* n_users and batch_size the constructor accepts.
InitGen ==
  /\ annealing = FALSE
  /\ save_path = "None"
  /\ n_users \in 1..MaxUsers
  /\ batch_size \in 1..MaxBatchSize
  /\ n_epochs = 1
  /\ number_of_batches = NumberOfBatches(n_users, batch_size)
  /\ GenFresh
  /\ CallbacksIdle
  /\ FitIdle
  /\ RecIdle
  /\ NdcgIdle

GeneratorNext ==
  /\ GenNext
  /\ UNCHANGED <<cfgVars, fitVars, cbVars, outVars, recVars, ndcgVars>>

SpecGen == InitGen /\ [][GeneratorNext]_vars

\* A call about to run: any click matrix of at most MaxCells entries, any score
\* matrix of the same shape, any k from 1 to one more than the number of items.
InitRec ==
  /\ annealing = FALSE
  /\ save_path = "None"
  /\ n_users = 1
  /\ batch_size = 1
  /\ n_epochs = 1
  /\ number_of_batches = 1
  /\ GenFresh
  /\ CallbacksIdle
  /\ FitIdle
  /\ NdcgIdle
  /\ call = "called"
  /\ \E n_rows \in 1..MaxCells, n_items \in 1..MaxCells :
       /\ n_rows * n_items <= MaxCells
       /\ x \in Matrices(n_rows, n_items, ClickValues)
       /\ predicted \in Matrices(n_rows, n_items, ScoreValues)
       /\ k \in 1..(n_items + 1)
  /\ remove_seen \in BOOLEAN
  /\ score = <<>>
  /\ top_scores = <<>>

RecommendCall ==
  /\ RecommendKItems
  /\ UNCHANGED <<cfgVars, genVars, fitVars, cbVars, outVars, ndcgVars>>

SpecRec == InitRec /\ [][RecommendCall]_vars

\* No two rows of the table have the same user and item.
NoDuplicates(df) ==
  \A i, j \in DOMAIN df : (df[i][1] = df[j][1] /\ df[i][2] = df[j][2]) => i = j

\* The tables of at most MaxTableRows rows, in every row order, with one row per
\* (user, item) as map_back_sparse produces them.
Tables(values) ==
  {df \in UNION {[1..n -> UserIds \X ItemIds \X values] : n \in 0..MaxTableRows} :
     NoDuplicates(df)}

\* A call of ndcg_at_k about to run: any two tables and any k from 0 to MaxK.

InitNdcg ==
  /\ annealing = FALSE
  /\ save_path = "None"
  /\ n_users = 1
  /\ batch_size = 1
  /\ n_epochs = 1
  /\ number_of_batches = 1
  /\ GenFresh
  /\ CallbacksIdle
  /\ FitIdle
  /\ call = "none"
  /\ x = <<>>
  /\ remove_seen = FALSE
  /\ predicted = <<>>
  /\ score = <<>>
  /\ top_scores = <<>>
  /\ k \in 0..MaxK
  /\ rating_true \in Tables(RatingValues)
  /\ rating_pred \in Tables(PredictionValues)
  /\ ndcg_call = "called"
  /\ ndcg_value = <<0, 1>>

NdcgAtKCall ==
  /\ NdcgCall
  /\ UNCHANGED <<cfgVars, genVars, fitVars, cbVars, outVars, call, x, remove_seen, predicted, score, top_scores>>

SpecNdcg == InitNdcg /\ [][NdcgAtKCall]_vars

\* ------------------------------------------------------------- claims
\* The best value Metrics has seen after the first e epochs: the maximum of the
\* initial 0.0 and the NDCG values of those epochs.
RECURSIVE BestSoFar(_, _)
BestSoFar(s, e) == IF e = 0 THEN 0 ELSE Max(s[e], BestSoFar(s, e - 1))

\* C1: once Metrics exists, best_ndcg is the maximum of 0.0 and every NDCG value
\* recorded so far, and the model was saved at the end of exactly those epochs
\* whose NDCG was strictly greater than the best before them, and only when
\* save_path is not None; no epoch saved twice.
C1_BestNdcgAndSaves ==
  pc # "constructed" =>
    /\ best_ndcg = BestSoFar(_data, Len(_data))
    /\ \A e \in 1..Len(_data) :
         (e \in Range(save_calls)) <=>
           (save_path # "None" /\ _data[e] > BestSoFar(_data, e - 1))
    /\ Range(save_calls) \subseteq 1..Len(_data)
    /\ \A i, j \in DOMAIN save_calls : save_calls[i] = save_calls[j] => i = j

\* Two epochs with the same positive NDCG: the first saved, the second did not.
C1_Witness ==
  /\ save_path = "path"
  /\ Len(_data) = 2
  /\ _data[1] > 0
  /\ _data[2] = _data[1]
  /\ save_calls = <<1>>
  /\ best_ndcg = _data[1]

\* C2: with annealing=True, fit prints the message and returns: no batch was
\* drawn, no shuffle ran, no optimizer step was applied, no epoch ended, no
\* callback list was filled, nothing was saved and no list was stored.
C2_AnnealingAbortsUntrained ==
  (annealing /\ pc # "constructed") =>
    /\ pc = "aborted"
    /\ Len(stdout) = 1
    /\ gen_state = "unstarted"
    /\ rng_draws = 0
    /\ batch = <<>>
    /\ params = 0
    /\ epoch = 0
    /\ step = 0
    /\ _data = <<>>
    /\ losses = <<>>
    /\ val_losses = <<>>
    /\ save_calls = <<>>
    /\ train_loss = {}
    /\ val_loss = {}
    /\ val_ndcg = {}

C2_Witness == annealing /\ pc = "aborted" /\ Len(stdout) = 1

\* The generator has yielded the last batch of a pass: the next request starts over.
PassComplete == gen_state = "suspended" /\ counter >= number_of_batches

\* The rows one pass has emitted.
PassRows == UNION {Range(pass_batches[i]) : i \in DOMAIN pass_batches}

\* C3: a completed pass has emitted exactly floor(n_users / batch_size) batches,
\* each of exactly batch_size rows, all rows of the pass pairwise distinct, and
\* none of the trailing rows of the shuffled order was emitted.
C3_PassEmitsFullBatchesOnly ==
  PassComplete =>
    /\ Len(pass_batches) = n_users \div batch_size
    /\ \A i \in DOMAIN pass_batches : Len(pass_batches[i]) = batch_size
    /\ \A i, j \in DOMAIN pass_batches :
         \A a \in DOMAIN pass_batches[i], b \in DOMAIN pass_batches[j] :
           pass_batches[i][a] = pass_batches[j][b] => (i = j /\ a = b)
    /\ \A t \in (batch_size * (n_users \div batch_size) + 1)..n_users :
         shuffle_index[t] \notin PassRows

\* C4: the request after the last batch of a pass yields a batch (the generator
\* never ends), the first of a new pass, and draws a new shuffle for that pass.
C4_ReshufflesOnRestart ==
  [][PassComplete =>
       /\ gen_state' = "suspended"
       /\ counter' = 1
       /\ rng_draws' = rng_draws + 1]_vars

\* The number of columns of the matrices of the call.
NItems == Len(x[1])

\* C5: for 1 <= k <= n_items the result has the shape of the input and, in every
\* row, is zero outside a set of k columns and equal to the masked score inside
\* it, and no masked score outside the set exceeds one inside it.
C5_TopKKeepsLargestScores ==
  (call = "returned" /\ 1 <= k /\ k <= NItems) =>
    /\ DOMAIN top_scores = DOMAIN x
    /\ \A i \in DOMAIN top_scores :
         /\ DOMAIN top_scores[i] = DOMAIN x[i]
         /\ \E S \in SUBSET (1..NItems) :
              /\ Cardinality(S) = k
              /\ \A j \in S : top_scores[i][j] = score[i][j]
              /\ \A j \in (1..NItems) \ S : top_scores[i][j] = 0
              /\ \A j \in S, j2 \in (1..NItems) \ S : score[i][j] >= score[i][j2]

\* A row with three different scores and k = 1: only the largest is kept.
C5_Witness ==
  /\ call = "returned"
  /\ k = 1
  /\ NItems = 3
  /\ \E i \in DOMAIN score :
       /\ Range(score[i]) = {0, 1, 2}
       /\ \E j \in 1..NItems : top_scores[i][j] = 2
       /\ \E j \in 1..NItems : score[i][j] = 1 /\ top_scores[i][j] = 0

\* C6: the call leaves x as it was, and with remove_seen=True the result is zero
\* wherever x is nonzero, for every k and every score matrix.
C6_SeenItemsZeroXUnchanged ==
  [][call = "called" =>
       /\ x' = x
       /\ (call' = "returned" /\ remove_seen) =>
            \A i \in DOMAIN x : \A j \in DOMAIN x[i] :
              x[i][j] # 0 => top_scores'[i][j] = 0]_vars

\* A seen item with the row's largest predicted score came back as zero, and an
\* unseen item was recommended.
C6_Witness ==
  /\ call = "returned"
  /\ remove_seen
  /\ \E i \in DOMAIN x : \E j, j2 \in DOMAIN x[i] :
       /\ x[i][j] # 0
       /\ predicted[i][j] = 2
       /\ top_scores[i][j] = 0
       /\ x[i][j2] = 0
       /\ top_scores[i][j2] = 1

\* C7: a finished call with k >= n_items has returned the masked score matrix
\* (all items selected), and a returned row whose masked scores are all zero is
\* all zero.
C7_KAtLeastNItemsSelectsAll ==
  call # "called" =>
    /\ k >= NItems => (call = "returned" /\ top_scores = score)
    /\ call = "returned" =>
         \A i \in DOMAIN score :
           (\A j \in DOMAIN score[i] : score[i][j] = 0) =>
             (\A j \in DOMAIN score[i] : top_scores[i][j] = 0)

\* What the finished call returned, as NdcgAtK gives it.
NdcgOutcome == [ended |-> ndcg_call, value |-> ndcg_value]

\* The rows of df in the order p.
Permute(df, p) == [i \in DOMAIN df |-> df[p[i]]]

CommonUsers == UsersOf(rating_true) \cap UsersOf(rating_pred)

\* The items of user u in the true table.
TrueItems(u) == {rating_true[i][2] : i \in {j \in DOMAIN rating_true : rating_true[j][1] = u}}

\* Every common user's best-ranked predictions are true items: each of the first
\* min(actual, k) ranks of the user's top-k predictions holds a true item of the user.
PerfectRanking ==
  LET top == GetTopKItems(RowsOfUsers(rating_pred, CommonUsers), k)
  IN \A u \in CommonUsers :
       \A r \in 1..Min(Len(RowsOfUsers(rating_true, {u})), k) :
         \E i \in DOMAIN top :
           top[i][1] = u /\ top[i][4] = r /\ top[i][2] \in TrueItems(u)

\* C8 as stated: for tables without duplicate rows and k >= 1 the value is in
\* [0, 1], and it is 1.0 whenever every common user's ranking is perfect.
C8_UnitIntervalAndPerfectIsOne ==
  (ndcg_call # "called" /\ k >= 1 /\ NoDuplicates(rating_true) /\ NoDuplicates(rating_pred)) =>
    /\ ndcg_call \in {"early", "full"}
    /\ 0 <= ndcg_value[1] /\ ndcg_value[1] <= ndcg_value[2]
    /\ PerfectRanking => ndcg_value = <<1, 1>>

\* C8 amended: the value is in [0, 1]; it is 1.0 when there is at least one
\* common user and every common user's ranking is perfect.
C8_UnitIntervalAndPerfectIsOneIfCommon ==
  (ndcg_call # "called" /\ k >= 1 /\ NoDuplicates(rating_true) /\ NoDuplicates(rating_pred)) =>
    /\ ndcg_call \in {"early", "full"}
    /\ 0 <= ndcg_value[1] /\ ndcg_value[1] <= ndcg_value[2]
    /\ (CommonUsers # {} /\ PerfectRanking) => ndcg_value = <<1, 1>>

\* A user with two true items, k = 1 and the one top prediction a hit: the ideal
\* DCG is capped at k and the value is 1.0.
C8_Witness ==
  /\ ndcg_call = "full"
  /\ k = 1
  /\ ndcg_value = <<1, 1>>
  /\ Len(rating_true) = 2
  /\ Cardinality(CommonUsers) = 1
  /\ PerfectRanking

\* No user has two predicted rows with the same prediction score.
NoTiedPredictions ==
  \A i, j \in DOMAIN rating_pred :
    (rating_pred[i][1] = rating_pred[j][1] /\ rating_pred[i][3] = rating_pred[j][3]) => i = j

\* C9 as stated: the call returns the same value on every reordering of the rows
\* of the two tables, tied prediction scores included.
C9_RowOrderInvariant ==
  ndcg_call # "called" =>
    \A p \in Perms(Len(rating_true)), q \in Perms(Len(rating_pred)) :
      NdcgAtK(Permute(rating_true, p), Permute(rating_pred, q), k) = NdcgOutcome

\* C9 amended: the same value on every reordering of the rows of the two tables
\* when no user has two predictions with the same score.
C9_RowOrderInvariantWithoutTies ==
  (ndcg_call # "called" /\ NoTiedPredictions) =>
    \A p \in Perms(Len(rating_true)), q \in Perms(Len(rating_pred)) :
      NdcgAtK(Permute(rating_true, p), Permute(rating_pred, q), k) = NdcgOutcome

\* One user, two predictions with different scores given lowest first, k = 1, and
\* the better one is a hit.
C9_Witness ==
  /\ ndcg_call = "full"
  /\ k = 1
  /\ NoTiedPredictions
  /\ Len(rating_pred) = 2
  /\ rating_pred[1][1] = rating_pred[2][1]
  /\ rating_pred[1][3] < rating_pred[2][3]
  /\ ndcg_value = <<1, 1>>

\* C10: the call never divides by zero; it returns 0.0 when the tables share no
\* user, when k leaves a zero ideal DCG, when no predicted (user, item) is a true
\* one, and when no top-k prediction is a true item; in each case it returns on
\* line 463, before any DCG, IDCG or division.
C10_DegenerateInputsReturnZero ==
  ndcg_call # "called" =>
    /\ ndcg_call # "div_by_zero"
    /\ (\/ CommonUsers = {}
        \/ k <= 0
        \/ \A i \in DOMAIN rating_pred : \A j \in DOMAIN rating_true :
             ~(rating_pred[i][1] = rating_true[j][1] /\ rating_pred[i][2] = rating_true[j][2])
        \/ LET top == GetTopKItems(RowsOfUsers(rating_pred, CommonUsers), k)
           IN \A i \in DOMAIN top : top[i][2] \notin TrueItems(top[i][1]))
         => (ndcg_call = "early" /\ ndcg_value = <<0, 1>>)

\* Two common users and not one hit.
C10_Witness ==
  /\ ndcg_call = "early"
  /\ ndcg_value = <<0, 1>>
  /\ k >= 1
  /\ Cardinality(CommonUsers) = 2

\* The reference value of NDCG@k, written from its definition on the two tables.
\* The rank of a prediction row within its user: one more than the number of
\* the user's rows with a larger score, or an equal score earlier in the table.
RefRank(i) ==
  1 + Cardinality({j \in DOMAIN rating_pred :
                     /\ rating_pred[j][1] = rating_pred[i][1]
                     /\ \/ rating_pred[j][3] > rating_pred[i][3]
                        \/ (rating_pred[j][3] = rating_pred[i][3] /\ j < i)})

\* The ranks of the user's hits among its k best-scored predictions.
RefHitRanks(u) ==
  {RefRank(i) : i \in {j \in DOMAIN rating_pred :
                         /\ rating_pred[j][1] = u
                         /\ RefRank(j) <= k
                         /\ rating_pred[j][2] \in TrueItems(u)}}

RECURSIVE RefSumDiscounts(_)
RefSumDiscounts(ranks) ==
  IF ranks = {} THEN 0
  ELSE LET r == CHOOSE a \in ranks : TRUE
       IN Discount(r) + RefSumDiscounts(ranks \ {r})

RefDcg(u) == RefSumDiscounts(RefHitRanks(u))

\* The uncapped count of the user's true interactions.
RefActual(u) == Cardinality({j \in DOMAIN rating_true : rating_true[j][1] = u})

RefIdcg(u) == RefSumDiscounts(1..Min(RefActual(u), k))

\* A user's DCG over its IDCG; a user without a hit contributes 0.
RefUserNdcg(u) == IF RefDcg(u) = 0 THEN <<0, 1>> ELSE Frac(RefDcg(u), RefIdcg(u))

RECURSIVE RefSum(_)
RefSum(users) ==
  IF users = {} THEN <<0, 1>>
  ELSE LET u == CHOOSE a \in users : TRUE
       IN FracAdd(RefUserNdcg(u), RefSum(users \ {u}))

\* The sum over the common users divided by their number; 0.0 when the tables
\* share no user.
RefNdcg ==
  IF CommonUsers = {} THEN <<0, 1>>
  ELSE Frac(RefSum(CommonUsers)[1], RefSum(CommonUsers)[2] * Cardinality(CommonUsers))

IsPrefix(t, s) == Len(t) <= Len(s) /\ SubSeq(s, 1, Len(t)) = t

\* The three per-epoch lists each hold e entries.
RecordsHaveLength(e) == Len(_data) = e /\ Len(losses) = e /\ Len(val_losses) = e

\* C12: during one training run the per-epoch records are append-only with one
\* entry per completed epoch: after the e-th epoch end the NDCG list, the
\* training-loss list and the validation-loss list each have length e, a step
\* never changes or removes an earlier entry, an epoch end adds exactly one entry
\* to each list, and once fit has returned without annealing train_loss,
\* val_loss and val_ndcg are those lists, each of length n_epochs.
C12_EpochRecordsAppendOnly ==
  /\ [](pc \in {"training", "fitted", "returned"} => RecordsHaveLength(epoch))
  /\ [](pc = "returned" =>
          /\ epoch = n_epochs
          /\ train_loss = {losses} /\ val_loss = {val_losses} /\ val_ndcg = {_data}
          /\ \A l \in train_loss \cup val_loss \cup val_ndcg : Len(l) = n_epochs)
  /\ [][/\ IsPrefix(_data, _data')
        /\ IsPrefix(losses, losses')
        /\ IsPrefix(val_losses, val_losses')
        /\ (epoch' = epoch + 1 =>
              /\ Len(_data') = Len(_data) + 1
              /\ Len(losses') = Len(losses) + 1
              /\ Len(val_losses') = Len(val_losses) + 1)
        /\ (epoch' = epoch =>
              /\ _data' = _data /\ losses' = losses /\ val_losses' = val_losses)]_vars

\* fit has returned after two epochs whose values differ, each list holding both.
C12_Witness ==
  /\ pc = "returned"
  /\ ~annealing
  /\ n_epochs = 2
  /\ epoch = 2
  /\ RecordsHaveLength(2)
  /\ _data[1] # _data[2]
  /\ losses[1] # losses[2]
  /\ train_loss = {losses} /\ val_loss = {val_losses} /\ val_ndcg = {_data}

====
